---- MODULE Spec2Model ----
(***************************************************************************)
(* Nonogram solver: line deduction (overlap, possibility enumeration), the *)
(* validator, and the propagation loop of solve_nonogram.                  *)
(*                                                                         *)
(* Cell values: -1 unknown, 0 empty, 1 filled.  A line is a function on    *)
(* 0..length-1 (Python's 0-based indices are kept); a clue (runs) and the  *)
(* index lists returned by the deducers are sequences.                     *)
(***************************************************************************)
EXTENDS Integers, Sequences, FiniteSets, TLC

\* ------------------------------------------------------------------ bounds
\* Longest line whose deductions are checked on their own.
MaxLen == 5
\* Largest run length and largest number of runs in a clue of such a line.
MaxRun == 3
MaxRuns == 2
\* Largest puzzle (size x size) the propagation loop is run on.
MaxSize == 2

VARIABLES
  \* --- one line handed to the deducers
  length, runs, known,
  patterns,               \* list(_enumerate_line_patterns(length, runs, known))
  must_fill, must_empty,  \* deduce_from_possibilities(length, runs, known)
  forced,                 \* overlap_fill_line(length, runs)
  lpc,                    \* which of the three calls have been made
  \* --- solve_nonogram(puzzle)
  size, rows, cols,       \* puzzle.size, puzzle.rows, puzzle.cols
  state,                  \* the working grid
  changed,                \* solve_nonogram's loop variable
  pc,                     \* "loop" | "overlap" | "possibility" | "done"
  axis, idx, cur,         \* the pass's position: "rows"/"cols", next line, current line
  todo,                   \* cell writes of the current line still to be made
  pass_changed,           \* the pass's local `changed`
  rounds,                 \* rounds of the loop started so far
  result                  \* what solve_nonogram returned

lineVars == <<length, runs, known, patterns, must_fill, must_empty, forced, lpc>>
solverVars == <<size, rows, cols, state, changed, pc, axis, idx, cur, todo,
                pass_changed, rounds, result>>
vars == <<lineVars, solverVars>>

\* ------------------------------------------------------------- list helpers
Cells == {-1, 0, 1}

Indices(n) == 0 .. (n - 1)

\* [v] * n
Repeat(v, n) == [i \in Indices(n) |-> v]

\* range(a, b + 1) as a list
RangeSeq(a, b) == [j \in 1 .. (b - a + 1) |-> a + j - 1]

SeqSet(s) == {s[j] : j \in 1 .. Len(s)}

SetMin(S) == CHOOSE x \in S : \A y \in S : x <= y

RECURSIVE SortedSeq(_)
\* sorted(S) for a finite set of integers; also [i for i in range(n) if i in S]
SortedSeq(S) ==
  IF S = {} THEN <<>>
  ELSE LET m == SetMin(S) IN <<m>> \o SortedSeq(S \ {m})

RECURSIVE SumFrom(_, _)
\* sum(runs[i:]), i 0-based
SumFrom(rs, i) == IF i >= Len(rs) THEN 0 ELSE rs[i + 1] + SumFrom(rs, i + 1)

\* pref[i] = sum(runs[0..i-1])
Pref(rs, i) == SumFrom(rs, 0) - SumFrom(rs, i)

\* ---------------------------------------------------------------- validator
RECURSIVE GroupsLoop(_, _, _, _, _)
GroupsLoop(line, n, i, run, groups) ==
  IF i = n THEN (IF run # 0 THEN Append(groups, run) ELSE groups)
  ELSE IF line[i] = 1 THEN GroupsLoop(line, n, i + 1, run + 1, groups)
  ELSE IF run # 0 THEN GroupsLoop(line, n, i + 1, 0, Append(groups, run))
  ELSE GroupsLoop(line, n, i + 1, 0, groups)

_line_groups_of_ones(line, n) == GroupsLoop(line, n, 0, 0, <<>>)

is_line_fully_known(line, n) == \A i \in Indices(n) : line[i] \in {0, 1}

does_line_satisfy_clues(line, n, rs) ==
  IF ~is_line_fully_known(line, n) THEN FALSE
  ELSE _line_groups_of_ones(line, n) = rs

\* ------------------------------------------- possibilities: the enumeration
\* Block [start, start+sz) lies in the line and holds no known-0 cell.
ok_block(len, kn, start, sz) ==
  IF start < 0 \/ start + sz > len THEN FALSE
  ELSE \A i \in start .. (start + sz - 1) : kn[i] # 0

\* consistent_fill that compares only the cells known empty
consistent_fill_zeros_only(len, kn, line) ==
  \A i \in Indices(len) : kn[i] # 0 \/ line[i] = 0

consistent_fill(len, kn, line) ==
  \A i \in Indices(len) : kn[i] = -1 \/ kn[i] = line[i]

\* for i in range(position, position + run): line[i] = 1
WriteBlock(line, position, run) ==
  [i \in DOMAIN line |->
     IF position <= i /\ i < position + run THEN 1 ELSE line[i]]

\* The pruning loop before the recursive call: no known 1 between the cursor
\* and the end of the block just written is left uncovered.
NoUncoveredKnownOne(kn, line, pos, next_pos) ==
  \A i \in pos .. (next_pos - 2) : ~(kn[i] = 1 /\ line[i] # 1)

RECURSIVE place(_, _, _, _, _, _)
RECURSIVE PlaceLoop(_, _, _, _, _, _, _)
\* One iteration of place's while loop, at start offset `position`, then the
\* rest of the loop; the patterns are listed in the order they are yielded.
PlaceLoop(len, rs, kn, run_idx, pos, position, line) ==
  LET run == rs[run_idx + 1]
      remaining == SumFrom(rs, run_idx) + (Len(rs) - 1 - run_idx)
      max_start == len - remaining
      index_after_run == position + run
      next_pos == index_after_run + 1
      line1 == WriteBlock(line, position, run)
      line2 == IF position + run < len
               THEN [line1 EXCEPT ![index_after_run] = 0] ELSE line1
      here ==
        IF ~ok_block(len, kn, position, run) THEN <<>>
        ELSE IF run_idx + 1 = Len(rs)
        THEN (IF consistent_fill(len, kn, line1) THEN <<line1>> ELSE <<>>)
        ELSE IF index_after_run < len /\ kn[index_after_run] = 1 THEN <<>>
        ELSE IF NoUncoveredKnownOne(kn, line2, pos, next_pos)
        THEN place(len, rs, kn, run_idx + 1, next_pos, line2)
        ELSE <<>>
  IN IF position > max_start THEN <<>>
     ELSE here \o PlaceLoop(len, rs, kn, run_idx, pos, position + 1, line)

\* place(run_idx, pos): `line` is the shared buffer as it stands at the call
\* (every iteration restores it before the next one).
place(len, rs, kn, run_idx, pos, line) ==
  PlaceLoop(len, rs, kn, run_idx, pos, pos, line)

_enumerate_line_patterns(len, rs, kn) ==
  IF rs = <<>>
  THEN (IF \A i \in Indices(len) : kn[i] \in {0, -1}
        THEN <<Repeat(0, len)>> ELSE <<>>)
  ELSE place(len, rs, kn, 0, 0, Repeat(0, len))

\* --------------------------------------------- possibilities: the deduction
\* ones_count[i] over the enumerated patterns
ones_count(pats, i) == Cardinality({k \in 1 .. Len(pats) : pats[k][i] = 1})

\* must_fill taken as the cells filled in some pattern
MustFillOf_any(len, pats) ==
  SortedSeq({i \in Indices(len) : ones_count(pats, i) > 0})

MustFillOf(len, pats) ==
  SortedSeq({i \in Indices(len) : ones_count(pats, i) = Len(pats)})

MustEmptyOf(len, pats) ==
  SortedSeq({i \in Indices(len) : ones_count(pats, i) = 0})

\* returns <<must_fill, must_empty>>
deduce_from_possibilities(len, rs, kn) ==
  LET pats == _enumerate_line_patterns(len, rs, kn)
  IN IF pats = <<>> THEN << <<>>, <<>> >>
     ELSE <<MustFillOf(len, pats), MustEmptyOf(len, pats)>>

\* ------------------------------------------------------------------ overlap
Slack(len, rs) == len - (SumFrom(rs, 0) + (Len(rs) - 1))

\* earliest start that forgets the gap cells before the run
earliest_start_no_gaps(rs, i) == Pref(rs, i)

earliest_start(rs, i) == Pref(rs, i) + i

\* latest start that counts one gap too many after the run
latest_start_extra_gap(len, rs, i) ==
  len - ((Pref(rs, Len(rs)) - Pref(rs, i)) + (Len(rs) - i))

latest_start(len, rs, i) ==
  len - ((Pref(rs, Len(rs)) - Pref(rs, i)) + (Len(rs) - 1 - i))

RECURSIVE ForcedLoop(_, _, _)
\* the list `forced` after the iterations i, i+1, .., k-1 of the loop over runs
ForcedLoop(len, rs, i) ==
  IF i >= Len(rs) THEN <<>>
  ELSE LET r == rs[i + 1]
           overlap_len == r - Slack(len, rs)
           start == latest_start(len, rs, i)
           end == earliest_start(rs, i) + r - 1
           ext == IF overlap_len <= 0 THEN <<>>
                  ELSE IF start <= end THEN RangeSeq(start, end) ELSE <<>>
       IN ext \o ForcedLoop(len, rs, i + 1)

overlap_fill_line(len, rs) ==
  IF rs = <<>> THEN <<>>
  ELSE IF Slack(len, rs) < 0 THEN <<>>
  ELSE SortedSeq(SeqSet(ForcedLoop(len, rs, 0)))

\* ------------------------------------------------- the deducers on one line
RECURSIVE SeqsUpTo(_, _)
\* every list of at most n elements of S
SeqsUpTo(S, n) ==
  IF n = 0 THEN {<<>>}
  ELSE LET shorter == SeqsUpTo(S, n - 1)
       IN shorter \cup {Append(s, x) : s \in {t \in shorter : Len(t) = n - 1}, x \in S}

NoGrid == <<>>

SolverIdle ==
  /\ size = 0 /\ rows = <<>> /\ cols = <<>> /\ state = NoGrid
  /\ changed = FALSE /\ pc = "idle" /\ axis = "rows" /\ idx = 0 /\ cur = 0
  /\ todo = <<>> /\ pass_changed = FALSE /\ rounds = 0
  /\ result = [kind |-> "pending", grid |-> NoGrid]

InitLine ==
  /\ length \in 0 .. MaxLen
  /\ runs \in SeqsUpTo(1 .. MaxRun, MaxRuns)
  /\ known \in [Indices(length) -> Cells]
  /\ patterns = <<>> /\ must_fill = <<>> /\ must_empty = <<>> /\ forced = <<>>
  /\ lpc = "input"
  /\ SolverIdle

CallEnumerate ==
  /\ lpc = "input"
  /\ patterns' = _enumerate_line_patterns(length, runs, known)
  /\ lpc' = "enumerated"
  /\ UNCHANGED <<length, runs, known, must_fill, must_empty, forced, solverVars>>

CallDeduce ==
  /\ lpc = "enumerated"
  /\ LET d == deduce_from_possibilities(length, runs, known)
     IN must_fill' = d[1] /\ must_empty' = d[2]
  /\ lpc' = "deduced"
  /\ UNCHANGED <<length, runs, known, patterns, forced, solverVars>>

CallOverlap ==
  /\ lpc = "deduced"
  /\ forced' = overlap_fill_line(length, runs)
  /\ lpc' = "done"
  /\ UNCHANGED <<length, runs, known, patterns, must_fill, must_empty, solverVars>>

NextLine == CallEnumerate \/ CallDeduce \/ CallOverlap

SpecLine == InitLine /\ [][NextLine]_vars

\* ------------------------------------------------------------ the validator
is_grid_complete(n, grid) == \A r \in Indices(n) : is_line_fully_known(grid[r], n)

\* [state[r][c] for r in range(puzzle.size)]
Column(n, grid, c) == [i \in Indices(n) |-> grid[i][c]]

is_puzzle_solved(n, rws, cls, grid) ==
  IF ~is_grid_complete(n, grid) THEN FALSE
  ELSE /\ \A r \in Indices(n) : does_line_satisfy_clues(grid[r], n, rws[r + 1])
       /\ \A c \in Indices(n) : does_line_satisfy_clues(Column(n, grid, c), n, cls[c + 1])

\* ------------------------------------------------------- the two passes
\* Line i of the grid along an axis, and its clue.
LineOf(n, grid, ax, i) == IF ax = "rows" THEN grid[i] ELSE Column(n, grid, i)
ClueOf(rws, cls, ax, i) == IF ax = "rows" THEN rws[i + 1] ELSE cls[i + 1]

\* Cell j of line i: grid[i][j] for a row, grid[j][i] for a column.
CellOf(grid, ax, i, j) == IF ax = "rows" THEN grid[i][j] ELSE grid[j][i]
SetCell(grid, ax, i, j, v) ==
  IF ax = "rows" THEN [grid EXCEPT ![i][j] = v] ELSE [grid EXCEPT ![j][i] = v]

\* apply_overlap_pass: the cells to visit on a line, each to be set to 1
OverlapWrites(n, rs) ==
  LET f == overlap_fill_line(n, rs) IN [k \in 1 .. Len(f) |-> <<f[k], 1>>]

\* the possibility pass clearing a line that has no legal pattern left
PossibilityWrites_clear_on_contradiction(n, rs, kn) ==
  LET d == deduce_from_possibilities(n, rs, kn)
  IN IF _enumerate_line_patterns(n, rs, kn) = <<>>
     THEN [k \in 1 .. n |-> <<k - 1, -1>>]
     ELSE [k \in 1 .. Len(d[1]) |-> <<d[1][k], 1>>] \o
          [k \in 1 .. Len(d[2]) |-> <<d[2][k], 0>>]

\* apply_possibility_pass: the cells of mf (to 1), then those of me (to 0)
PossibilityWrites(n, rs, kn) ==
  LET d == deduce_from_possibilities(n, rs, kn)
  IN [k \in 1 .. Len(d[1]) |-> <<d[1][k], 1>>] \o
     [k \in 1 .. Len(d[2]) |-> <<d[2][k], 0>>]

\* if grid[r][c] == -1: the overlap pass writes unknown cells only
OverlapWrites_cell(old, v) == old = -1
\* the possibility pass with the test before the write left out
PossibilityWrites_cell_unconditional(old, v) == TRUE

\* if grid[r][c] != 1 / != 0: the possibility pass writes when the value differs
PossibilityWrites_cell(old, v) == old # v

WritesCell(pass, old, v) ==
  IF pass = "overlap" THEN OverlapWrites_cell(old, v) ELSE PossibilityWrites_cell(old, v)

\* `changed = True` left out beside the writes of must_empty cells
ReportsChange_fills_only(pass, ax, v) == v = 1

\* `changed = True` beside a write
ReportsChange(pass, ax, v) == TRUE

LineWrites(pass, n, rs, kn) ==
  IF pass = "overlap" THEN OverlapWrites(n, rs) ELSE PossibilityWrites(n, rs, kn)

RECURSIVE ApplyWrites(_, _, _, _, _, _)
\* The writes w of line i made one after the other: the grid, and the
\* pass's `changed`.
ApplyWrites(pass, g, ch, ax, i, w) ==
  IF w = <<>> THEN [grid |-> g, changed |-> ch]
  ELSE LET j == Head(w)[1]
           v == Head(w)[2]
       IN IF WritesCell(pass, CellOf(g, ax, i, j), v)
          THEN ApplyWrites(pass, SetCell(g, ax, i, j, v),
                           ch \/ ReportsChange(pass, ax, v), ax, i, Tail(w))
          ELSE ApplyWrites(pass, g, ch, ax, i, Tail(w))

RECURSIVE ApplyLines(_, _, _, _, _, _, _, _)
\* Lines i, i+1, .., n-1 of an axis, each deduced from the grid as it stands
\* when the line is reached.
ApplyLines(pass, n, rws, cls, g, ch, ax, i) ==
  IF i >= n THEN [grid |-> g, changed |-> ch]
  ELSE LET w == LineWrites(pass, n, ClueOf(rws, cls, ax, i), LineOf(n, g, ax, i))
           a == ApplyWrites(pass, g, ch, ax, i, w)
       IN ApplyLines(pass, n, rws, cls, a.grid, a.changed, ax, i + 1)

\* A whole pass: the rows, then the columns.
ApplyPass(pass, n, rws, cls, g) ==
  LET a == ApplyLines(pass, n, rws, cls, g, FALSE, "rows", 0)
  IN ApplyLines(pass, n, rws, cls, a.grid, a.changed, "cols", 0)

apply_overlap_pass(n, rws, cls, g) == ApplyPass("overlap", n, rws, cls, g)
apply_possibility_pass(n, rws, cls, g) == ApplyPass("possibility", n, rws, cls, g)

\* ------------------------------------------------------------- the puzzles
Grids(n) == [Indices(n) -> [Indices(n) -> {0, 1}]]

\* Every clue that fits a line of n cells, and every clue that misses fitting
\* by one cell.
ClueAlphabet(n) ==
  {_line_groups_of_ones(l, n + 1) : l \in [Indices(n + 1) -> {0, 1}]}

RowClues(n, g) == [r \in 1 .. n |-> _line_groups_of_ones(g[r - 1], n)]
ColClues(n, g) == [c \in 1 .. n |-> _line_groups_of_ones(Column(n, g, c - 1), n)]

\* The clues of a filled-in grid, and the same with one line's clue replaced:
\* every puzzle that has a solution, and puzzles that have none.
PuzzlesAround(n, g) ==
  LET rws == RowClues(n, g)
      cls == ColClues(n, g)
  IN {<<rws, cls>>}
     \cup {<<[rws EXCEPT ![i] = c], cls>> : i \in 1 .. n, c \in ClueAlphabet(n)}
     \cup {<<rws, [cls EXCEPT ![i] = c]>> : i \in 1 .. n, c \in ClueAlphabet(n)}

LineIdle ==
  /\ length = 0 /\ runs = <<>> /\ known = <<>>
  /\ patterns = <<>> /\ must_fill = <<>> /\ must_empty = <<>> /\ forced = <<>>
  /\ lpc = "idle"

\* --------------------------------------------------------- solve_nonogram
Init ==
  /\ size \in 1 .. MaxSize
  /\ \E g \in Grids(size) : \E p \in PuzzlesAround(size, g) :
       rows = p[1] /\ cols = p[2]
  /\ state = [r \in Indices(size) |-> Repeat(-1, size)]
  /\ changed = TRUE
  /\ pc = "loop"
  /\ axis = "rows" /\ idx = 0 /\ cur = 0 /\ todo = <<>> /\ pass_changed = FALSE
  /\ rounds = 0
  /\ result = [kind |-> "pending", grid |-> NoGrid]
  /\ LineIdle

\* The loop cannot run more rounds than this without a cell changing back.
RoundCap == size * size + 2

\* while changed: the condition is false, the function returns the grid
LoopEnd ==
  /\ pc = "loop" /\ ~changed
  /\ pc' = "done"
  /\ result' = [kind |-> "grid", grid |-> state]
  /\ UNCHANGED <<size, rows, cols, state, changed, axis, idx, cur, todo,
                 pass_changed, rounds, lineVars>>

\* if is_puzzle_solved(puzzle, state): break, and the function returns the grid
LoopBreak ==
  /\ pc = "loop" /\ changed
  /\ is_puzzle_solved(size, rows, cols, state)
  /\ pc' = "done"
  /\ result' = [kind |-> "grid", grid |-> state]
  /\ UNCHANGED <<size, rows, cols, state, changed, axis, idx, cur, todo,
                 pass_changed, rounds, lineVars>>

\* changed = False, and apply_overlap_pass is entered
LoopRound ==
  /\ pc = "loop" /\ changed
  /\ ~is_puzzle_solved(size, rows, cols, state)
  /\ rounds < RoundCap
  /\ changed' = FALSE
  /\ pc' = "overlap"
  /\ axis' = "rows" /\ idx' = 0 /\ cur' = 0 /\ todo' = <<>> /\ pass_changed' = FALSE
  /\ rounds' = rounds + 1
  /\ UNCHANGED <<size, rows, cols, state, result, lineVars>>

InPass == pc \in {"overlap", "possibility"}

\* The pass reaches line idx of the axis and computes what the line forces.
PassLine ==
  /\ InPass /\ todo = <<>> /\ idx < size
  /\ todo' = LineWrites(pc, size, ClueOf(rows, cols, axis, idx),
                        LineOf(size, state, axis, idx))
  /\ cur' = idx
  /\ idx' = idx + 1
  /\ UNCHANGED <<size, rows, cols, state, changed, pc, axis, pass_changed,
                 rounds, result, lineVars>>

\* One iteration of a loop over forced / mf / me: the test and the cell write.
PassWrite ==
  /\ InPass /\ todo # <<>>
  /\ LET a == ApplyWrites(pc, state, pass_changed, axis, cur, <<Head(todo)>>)
     IN state' = a.grid /\ pass_changed' = a.changed
  /\ todo' = Tail(todo)
  /\ UNCHANGED <<size, rows, cols, changed, pc, axis, idx, cur, rounds, result,
                 lineVars>>

\* The rows are done: on to the columns.
PassColumns ==
  /\ InPass /\ todo = <<>> /\ idx = size /\ axis = "rows"
  /\ axis' = "cols" /\ idx' = 0
  /\ UNCHANGED <<size, rows, cols, state, changed, pc, cur, todo, pass_changed,
                 rounds, result, lineVars>>

\* apply_overlap_pass returns; `if ...: changed = True`; apply_possibility_pass
\* is entered.
OverlapReturn ==
  /\ pc = "overlap" /\ todo = <<>> /\ idx = size /\ axis = "cols"
  /\ changed' = (changed \/ pass_changed)
  /\ pc' = "possibility"
  /\ axis' = "rows" /\ idx' = 0 /\ pass_changed' = FALSE
  /\ UNCHANGED <<size, rows, cols, state, cur, todo, rounds, result, lineVars>>

\* apply_possibility_pass returns; `if ...: changed = True`; back to the
\* loop's condition.
PossibilityReturn ==
  /\ pc = "possibility" /\ todo = <<>> /\ idx = size /\ axis = "cols"
  /\ changed' = (changed \/ pass_changed)
  /\ pc' = "loop"
  /\ axis' = "rows" /\ idx' = 0 /\ pass_changed' = FALSE
  /\ UNCHANGED <<size, rows, cols, state, cur, todo, rounds, result, lineVars>>

Next ==
  \/ LoopEnd \/ LoopBreak \/ LoopRound
  \/ PassLine \/ PassWrite \/ PassColumns
  \/ OverlapReturn \/ PossibilityReturn

Spec == Init /\ [][Next]_vars

\* ------------------------------------------------ what a legal line is
\* The line whose filled cells are the blocks of lengths rs at the starts st.
BlocksAt(len, rs, st) ==
  [i \in Indices(len) |->
     IF \E j \in 1 .. Len(rs) : st[j] <= i /\ i < st[j] + rs[j] THEN 1 ELSE 0]

RECURSIVE StartsFrom(_, _, _, _)
\* The starts of blocks j, j+1, .. (1-based), the first of them at `from` or
\* later, each block inside the line and at least one cell after the one
\* before it.
StartsFrom(len, rs, j, from) ==
  IF j > Len(rs) THEN {<<>>}
  ELSE UNION {{<<s>> \o t : t \in StartsFrom(len, rs, j + 1, s + rs[j] + 1)} :
                s \in from .. (len - rs[j])}

\* The 0/1 lines of length len whose maximal blocks of 1s, in order, are rs.
LinesWithBlocks(len, rs) ==
  {BlocksAt(len, rs, st) : st \in StartsFrom(len, rs, 1, 0)}

Agrees(len, kn, line) ==
  \A i \in Indices(len) : (kn[i] = 0 => line[i] = 0) /\ (kn[i] = 1 => line[i] = 1)

\* All 0/1 lines whose maximal blocks of 1s, in order, are rs and that agree
\* with what is known.
LegalLines(len, rs, kn) ==
  {l \in LinesWithBlocks(len, rs) : Agrees(len, kn, l)}

AlwaysFilled(len, L) == {i \in Indices(len) : \A p \in L : p[i] = 1}
AlwaysEmpty(len, L) == {i \in Indices(len) : \A p \in L : p[i] = 0}

StrictlyAscending(s) == \A j \in 1 .. (Len(s) - 1) : s[j] < s[j + 1]

\* the line of scenario 1 and 2: length 5, runs [2]
Line5(c0) == [i \in Indices(5) |-> IF i = 0 THEN c0 ELSE -1]
Bits5(a, b, c, d, e) == [i \in Indices(5) |-> <<a, b, c, d, e>>[i + 1]]

\* C4: the patterns _enumerate_line_patterns yields are, each exactly once,
\* all the 0/1 lines of the given length whose maximal blocks of 1s read in
\* order equal runs and that agree with known; for empty runs, the single
\* all-zero line when no cell is known filled and nothing otherwise; length 5,
\* runs [2] gives 11000, 01100, 00110, 00011, and the last three when cell 0
\* is known empty.
C4_EnumerationExact ==
  lpc = "enumerated" =>
    /\ LET L == LegalLines(length, runs, known)
       IN SeqSet(patterns) = L /\ Len(patterns) = Cardinality(L)
    /\ \A k \in 1 .. Len(patterns) :
         _line_groups_of_ones(patterns[k], length) = runs
    /\ runs = <<>> =>
         patterns = IF \E i \in Indices(length) : known[i] = 1
                    THEN <<>> ELSE <<Repeat(0, length)>>
    /\ (length = 5 /\ runs = <<2>> /\ known = Line5(-1)) =>
         patterns = <<Bits5(1,1,0,0,0), Bits5(0,1,1,0,0),
                      Bits5(0,0,1,1,0), Bits5(0,0,0,1,1)>>
    /\ (length = 5 /\ runs = <<2>> /\ known = Line5(0)) =>
         patterns = <<Bits5(0,1,1,0,0), Bits5(0,0,1,1,0), Bits5(0,0,0,1,1)>>

\* A line with a known-empty first cell has been enumerated and three
\* patterns came out.
C4_Witness ==
  /\ lpc = "enumerated" /\ length = 5 /\ runs = <<2>> /\ known = Line5(0)
  /\ Len(patterns) = 3

\* C5: must_fill is exactly the indices that are 1 in every legal pattern,
\* must_empty exactly those that are 0 in every legal pattern; the two are
\* disjoint and hold at most length indices together; both are empty when
\* the line has no legal pattern.
C5_DeductionExact ==
  lpc = "deduced" =>
    LET L == LegalLines(length, runs, known)
    IN /\ L = {} => (must_fill = <<>> /\ must_empty = <<>>)
       /\ L # {} =>
            /\ SeqSet(must_fill) = AlwaysFilled(length, L)
            /\ SeqSet(must_empty) = AlwaysEmpty(length, L)
       /\ StrictlyAscending(must_fill) /\ StrictlyAscending(must_empty)
       /\ SeqSet(must_fill) \cap SeqSet(must_empty) = {}
       /\ Len(must_fill) + Len(must_empty) <= length

\* A deduction found a forced fill and a forced empty among unknown cells,
\* on a line with more than one legal pattern.
C5_Witness ==
  /\ lpc = "deduced"
  /\ Len(patterns) >= 2
  /\ \E i \in SeqSet(must_fill) : known[i] = -1
  /\ \E i \in SeqSet(must_empty) : known[i] = -1

\* C6 (as stated): for every line and every known, the indices of
\* overlap_fill_line are among must_fill of deduce_from_possibilities.
C6_OverlapSubsetAlways ==
  lpc = "done" => SeqSet(forced) \subseteq SeqSet(must_fill)

\* C6 (amended): for every line and every known under which the line has at
\* least one legal pattern, the indices of overlap_fill_line are among
\* must_fill of deduce_from_possibilities.
C6_OverlapSubsetWhenSatisfiable ==
  (lpc = "done" /\ LegalLines(length, runs, known) # {}) =>
    SeqSet(forced) \subseteq SeqSet(must_fill)

\* Overlap forces a cell on a line that has a legal pattern under a known
\* that decides some cell.
C6_Witness ==
  /\ lpc = "done" /\ forced # <<>>
  /\ LegalLines(length, runs, known) # {}
  /\ \E i \in Indices(length) : known[i] # -1
  /\ Len(must_fill) > Len(forced)

\* sum of the run lengths before run i (0-based) plus one gap cell each
SpecEarliest(rs, i) == (SumFrom(rs, 0) - SumFrom(rs, i)) + i
\* length minus (sum of runs i..end plus the gaps among them)
SpecLatest(len, rs, i) == len - (SumFrom(rs, i) + (Len(rs) - 1 - i))

OverlapUnion(len, rs) ==
  UNION {SpecLatest(len, rs, i) .. (SpecEarliest(rs, i) + rs[i + 1] - 1) :
           i \in {j \in Indices(Len(rs)) : rs[j + 1] > Slack(len, rs)}}

\* C7: overlap_fill_line returns, sorted and without duplicates, exactly the
\* indices filled in every legal placement of runs with no prior knowledge,
\* which is the union over the runs i with runs[i] > slack of
\* [latestStart[i], earliestStart[i] + runs[i] - 1]; it returns the empty list
\* when runs is empty or slack is negative; length 5, runs [3,1] gives
\* 0, 1, 2, 4.
C7_OverlapExact ==
  lpc = "done" =>
    /\ StrictlyAscending(forced)
    /\ (runs = <<>> \/ Slack(length, runs) < 0) => forced = <<>>
    /\ Slack(length, runs) >= 0 =>
         /\ SeqSet(forced) = OverlapUnion(length, runs)
         /\ SeqSet(forced) =
              AlwaysFilled(length, LegalLines(length, runs, Repeat(-1, length)))
    /\ (length = 5 /\ runs = <<3, 1>>) => forced = <<0, 1, 2, 4>>

\* Two runs, positive slack, and the overlap still forces a cell.
C7_Witness ==
  /\ lpc = "done" /\ Len(runs) = 2 /\ Slack(length, runs) > 0
  /\ forced # <<>>

\* ------------------------------------------------- solve_nonogram's result
HasSolution == \E g \in Grids(size) : is_puzzle_solved(size, rows, cols, g)

Decided(grid) == {rc \in Indices(size) \X Indices(size) : grid[rc[1]][rc[2]] # -1}

\* C1: what solve_nonogram returns is either the not-solvable indication or a
\* size x size grid with no unknown cell that passes is_puzzle_solved; a grid
\* with unknown cells, or a complete grid that violates a clue, is never
\* returned.
C1_ResultNoneOrSolved ==
  pc = "done" =>
    \/ result.kind = "none"
    \/ /\ result.kind = "grid"
       /\ is_grid_complete(size, result.grid)
       /\ is_puzzle_solved(size, rows, cols, result.grid)

\* C2: for a puzzle that no 0/1 grid satisfies, solve_nonogram returns the
\* not-solvable result and not a grid.
C2_UnsatisfiableGivesNone ==
  (pc = "done" /\ ~HasSolution) => result.kind = "none"

\* C3: for a puzzle that has at least one solution, solve_nonogram returns a
\* grid that passes is_puzzle_solved, also when propagation reaches its fixed
\* point with two or more cells unknown.
C3_SatisfiableGivesSolved ==
  (pc = "done" /\ HasSolution) =>
    /\ result.kind = "grid"
    /\ is_puzzle_solved(size, rows, cols, result.grid)

\* A pass has reached a line that has no legal pattern under the grid as it
\* stands (possibility pass) or whose clue has negative slack (overlap pass).
LineContradicts ==
  /\ InPass /\ todo = <<>> /\ idx < size
  /\ LET rs == ClueOf(rows, cols, axis, idx)
     IN IF pc = "overlap" THEN rs # <<>> /\ Slack(size, rs) < 0
        ELSE _enumerate_line_patterns(size, rs, LineOf(size, state, axis, idx)) = <<>>

\* C8: when a line met during a propagation round has no legal pattern or a
\* clue with negative slack, the loop ends at once with a Contradiction
\* outcome, which is not the outcome of a stalled round.
C8_ContradictionEndsLoop ==
  [][LineContradicts => (pc' = "done" /\ result'.kind = "contradiction")]_vars

\* C9: no cell write of either pass, in any round, sets a cell that holds 0
\* or 1 back to unknown: the set of decided cells never shrinks.
C9_DecidedNeverShrinks ==
  [][\A r \in Indices(size) : \A c \in Indices(size) :
       state[r][c] # -1 => state'[r][c] # -1]_vars

\* The possibility pass of a second round is about to write a cell while
\* other cells are already decided.
C9_Witness ==
  /\ pc = "possibility" /\ rounds >= 2 /\ todo # <<>>
  /\ Decided(state) # {}

\* C10: once the loop has ended, one more round on the resulting grid
\* (apply_overlap_pass, then apply_possibility_pass) changes no cell and
\* both passes return False.
C10_ExtraRoundChangesNothing ==
  pc = "done" =>
    LET o == apply_overlap_pass(size, rows, cols, result.grid)
        p == apply_possibility_pass(size, rows, cols, o.grid)
    IN /\ ~o.changed /\ o.grid = result.grid
       /\ ~p.changed /\ p.grid = result.grid

\* The loop of a 2 x 2 puzzle ended on an unproductive round after an
\* earlier round had decided cells.
C10_Witness ==
  /\ pc = "done" /\ ~changed /\ rounds >= 2 /\ size = 2
  /\ Decided(state) # {}

\* The loop ended on is_puzzle_solved.
C10_WitnessSolved ==
  /\ pc = "done" /\ changed
  /\ is_puzzle_solved(size, rows, cols, state)

\* ------------------------------------------------ soundness of propagation
\* The 0/1 lines that satisfy the clue of row r.
RowCandidates(r) ==
  {l \in [Indices(size) -> {0, 1}] : does_line_satisfy_clues(l, size, rows[r + 1])}

RECURSIVE GridsOfRows(_)
\* The grids of n rows, row r taken among the candidates of row r.
GridsOfRows(n) ==
  IF n = 0 THEN {[r \in {} |-> <<>>]}
  ELSE {[r \in Indices(n) |-> IF r = n - 1 THEN l ELSE g[r]] :
          g \in GridsOfRows(n - 1), l \in RowCandidates(n - 1)}

\* Every grid S for which is_puzzle_solved(puzzle, S) holds.
Solutions ==
  {g \in GridsOfRows(size) : is_puzzle_solved(size, rows, cols, g)}

\* Each decided cell of the grid has the value the solution has there.
AgreesWithSolution(grid, sol) ==
  \A r \in Indices(size) : \A c \in Indices(size) :
    grid[r][c] # -1 => grid[r][c] = sol[r][c]

\* C11: for every solution S of the puzzle, at every point of solve_nonogram
\* (after each cell write of either pass, from the all-unknown grid on) each
\* decided cell of the working grid has the value of the same cell of S, and
\* no step overwrites a decided cell with the opposite value.  The grid starts
\* all unknown, so it is enough to look at the grid after every step that
\* changes it.
C11_PropagationSound ==
  [][state' # state =>
       \A sol \in Solutions :
         /\ AgreesWithSolution(state', sol)
         /\ \A r \in Indices(size) : \A c \in Indices(size) :
              state[r][c] # -1 => state'[r][c] = state[r][c]]_vars

\* A pass is in the middle of a line of a 2 x 2 puzzle that has a solution,
\* with a cell written filled, a cell written empty and a cell still unknown.
C11_Witness ==
  /\ InPass /\ todo # <<>> /\ size = 2
  /\ Solutions # {}
  /\ \E rc \in Decided(state) : state[rc[1]][rc[2]] = 0
  /\ \E rc \in Decided(state) : state[rc[1]][rc[2]] = 1
  /\ Decided(state) # Indices(size) \X Indices(size)

\* ------------------------------------------------ termination of the loop
\* Some step of solve_nonogram can be taken: the guards of the actions of Next.
CanStep ==
  \/ /\ pc = "loop"
     /\ \/ ~changed
        \/ is_puzzle_solved(size, rows, cols, state)
        \/ rounds < RoundCap
  \/ /\ InPass
     /\ \/ todo # <<>>
        \/ idx < size
        \/ idx = size /\ axis \in {"rows", "cols"}

\* The loop has returned, or it is still running.
ReturnedOrRunning == pc = "done" \/ CanStep

\* A step that makes a pass report a change writes a cell, and a step that
\* writes a cell decides a cell that was unknown and leaves every decided
\* cell decided.
ChangeDecidesACell ==
  /\ (pass_changed' /\ ~pass_changed) => state' # state
  /\ state' # state =>
       /\ Decided(state) \subseteq Decided(state')
       /\ Decided(state) # Decided(state')

\* C12: the propagation loop ends for every puzzle, with or without a
\* solution: every change a pass reports turns an unknown cell into a decided
\* one and turns no decided cell back, so after k productive rounds at least
\* k cells are decided, the loop starts at most size*size + 1 rounds, and it
\* never stops short of returning.
C12_LoopTerminates ==
  /\ [](rounds <= size * size + 1)
  /\ []((pc = "loop" /\ changed) => Cardinality(Decided(state)) >= rounds)
  /\ []ReturnedOrRunning
  /\ [][ChangeDecidesACell]_vars

\* A 2 x 2 puzzle whose loop returned on the unproductive third round, after
\* two rounds that each decided cells.
C12_Witness ==
  /\ pc = "done" /\ ~changed /\ size = 2 /\ rounds = 3
  /\ Decided(state) # {}

====
